---- MODULE Spec2Model ----
(***************************************************************************)
(* State-machine model of swiftgalaxy/_swiftgalaxy.py: the SWIFTGalaxy     *)
(* transform stack, the per-species lazy field proxy                       *)
(* (_SWIFTParticleDatasetHelper) and the periodic box wrap.                *)
(*                                                                         *)
(* Arrays are sequences of rows; a coordinate-like row is a 3-tuple of     *)
(* integers.  A value that may be None is a sequence of length at most    *)
(* one: None is <<>> and a present value x is <<x>>.  An exception raised  *)
(* by a call is recorded in err; a call that raises keeps every mutation   *)
(* it made before the raise.                                               *)
(***************************************************************************)
EXTENDS Integers, Sequences, FiniteSets, TLC

VARIABLES
    constructed,                \* SWIFTGalaxy.__init__ returned normally
    snapshot,                   \* on-disk data: species -> field -> array
    boxsize,                    \* metadata.boxsize, None when absent
    extra_mask,                 \* SWIFTGalaxy._extra_mask
    translatable,               \* SWIFTGalaxy.translatable
    boostable,                  \* SWIFTGalaxy.boostable
    rotatable,                  \* SWIFTGalaxy.rotatable
    particle_dataset,           \* the datasets' _<field> slots
    transform_stack,            \* SWIFTGalaxy._transform_stack
    cartesian_representation,   \* helper._cartesian_representation
    spherical_representation,   \* helper._spherical_representation
    cylindrical_representation, \* helper._cylindrical_representation
    raw_fetches,                \* reads of a field from the snapshot file
    mask_applications,          \* data[mask] selections applied to a field
    stack_replays,              \* _apply_transform_stack runs on a field
    err                         \* exception raised by the latest call

vars == <<constructed, snapshot, boxsize, extra_mask, translatable,
          boostable, rotatable, particle_dataset,
          transform_stack, cartesian_representation,
          spherical_representation, cylindrical_representation,
          raw_fetches, mask_applications, stack_replays, err>>

None == <<>>

Some(x) == <<x>>

NoError == "none"

(***************************************************************************)
(* Bounds of the model: the length of the transform stack, and for the     *)
(* inputs of the box wrap the largest coordinate and the largest box       *)
(* length.                                                                 *)
(***************************************************************************)
MaxStack == 2

MaxCoord == 3

MaxBox == 2

(***************************************************************************)
(* Configuration: the species and the fields of each species.              *)
(***************************************************************************)
present_particle_names == {"gas", "dark_matter"}

field_names == {"particle_ids", "coordinates", "velocities"}

id_particle_dataset_name == "particle_ids"

(***************************************************************************)
(* Integer helpers.                                                        *)
(***************************************************************************)
Abs(n) == IF n < 0 THEN -n ELSE n

Sgn(n) == IF n < 0 THEN -1 ELSE IF n > 0 THEN 1 ELSE 0

RECURSIVE GCD(_, _)
GCD(a, b) == IF b = 0 THEN a ELSE GCD(b, a % b)

Reduce(p, q) ==
    LET g == GCD(Abs(p), Abs(q))
    IN  IF g = 0 THEN <<0, 0>> ELSE <<p \div g, q \div g>>

Neg(v) == [i \in DOMAIN v |-> -v[i]]

(***************************************************************************)
(* _apply_box_wrap: per axis, subtract the box length while the component  *)
(* is > L/2, then add it while the component is <= -L/2.                   *)
(***************************************************************************)
(***************************************************************************)
(* Faulty variants of the wrap loops: a single correction instead of a     *)
(* loop, and a strict lower bound.                                         *)
(***************************************************************************)
wrap_too_high_once(x, L) == IF 2 * x > L THEN x - L ELSE x

RECURSIVE wrap_too_low_strict(_, _)
wrap_too_low_strict(x, L) ==
    IF 2 * x < -L THEN wrap_too_low_strict(x + L, L) ELSE x

RECURSIVE wrap_too_high(_, _)
wrap_too_high(x, L) == IF 2 * x > L THEN wrap_too_high(x - L, L) ELSE x

RECURSIVE wrap_too_low(_, _)
wrap_too_low(x, L) == IF 2 * x <= -L THEN wrap_too_low(x + L, L) ELSE x

apply_box_wrap(coords, box) ==
    [k \in DOMAIN coords |->
        [axis \in 1..3 |->
            wrap_too_low(wrap_too_high(coords[k][axis], box[axis]),
                         box[axis])]]

(***************************************************************************)
(* _apply_translation: coords += offset.                                   *)
(***************************************************************************)
apply_translation(coords, offset) ==
    [k \in DOMAIN coords |-> [axis \in 1..3 |-> coords[k][axis] + offset[axis]]]

(***************************************************************************)
(* _apply_rotmat: coords.dot(rotmat), a new array.                         *)
(***************************************************************************)
apply_rotmat(coords, rotmat) ==
    [k \in DOMAIN coords |->
        [j \in 1..3 |-> coords[k][1] * rotmat[1][j]
                        + coords[k][2] * rotmat[2][j]
                        + coords[k][3] * rotmat[3][j]]]

(***************************************************************************)
(* astropy's rotation_matrix(angle, axis) for the z axis and angles that   *)
(* are multiples of 90 degrees.                                            *)
(***************************************************************************)
Cos90(angle) ==
    CASE angle % 360 = 0 -> 1
      [] angle % 360 = 90 -> 0
      [] angle % 360 = 180 -> -1
      [] OTHER -> 0

Sin90(angle) ==
    CASE angle % 360 = 0 -> 0
      [] angle % 360 = 90 -> 1
      [] angle % 360 = 180 -> 0
      [] OTHER -> -1

rotation_matrix(angle_axis) ==
    LET c == Cos90(angle_axis[1])
        s == Sin90(angle_axis[1])
    IN  << <<c, s, 0>>, <<-s, c, 0>>, <<0, 0, 1>> >>

(***************************************************************************)
(* _apply_transform_stack.  The result records the data, whether the data  *)
(* is still the array object that was passed in (translation and wrap      *)
(* work in place, a rotation makes a new array), the content of the array  *)
(* object that was passed in, and the exception raised, if any: dot() with *)
(* a rotmat of None raises TypeError.                                      *)
(***************************************************************************)
apply_transform(acc, transform_type, transform, is_translatable, is_rotatable, is_boostable) ==
    CASE transform_type = "T" /\ is_translatable ->
            [acc EXCEPT !.data = apply_translation(acc.data, transform)]
      [] transform_type = "B" /\ is_boostable ->
            [acc EXCEPT !.data = apply_translation(acc.data, transform)]
      [] transform_type = "R" /\ is_rotatable ->
            IF transform = None
            THEN [acc EXCEPT !.err = "TypeError"]
            ELSE [acc EXCEPT !.data = apply_rotmat(acc.data, transform[1]),
                             !.same = FALSE]
      [] OTHER -> acc

(* Faulty variant: the wrap follows translation and boost entries only. *)
replay_wraps_shifts_only(transform_type, is_translatable, box) ==
    is_translatable /\ box # None /\ transform_type \in {"T", "B"}

replay_wraps(transform_type, is_translatable, box) ==
    is_translatable /\ box # None

replay_entry(acc, entry, is_translatable, is_rotatable, is_boostable, box) ==
    IF acc.err # NoError THEN acc
    ELSE LET moved == apply_transform(acc, entry[1], entry[2],
                                      is_translatable, is_rotatable,
                                      is_boostable)
             wrapped ==
                IF moved.err # NoError THEN moved
                ELSE IF replay_wraps(entry[1], is_translatable, box)
                     THEN [moved EXCEPT
                              !.data = apply_box_wrap(moved.data, box[1])]
                     ELSE moved
         IN  [wrapped EXCEPT
                 !.orig = IF wrapped.same THEN wrapped.data ELSE acc.orig]

RECURSIVE replay_from(_, _, _, _, _, _, _)
replay_from(acc, stack, i, is_translatable, is_rotatable, is_boostable, box) ==
    IF i > Len(stack) THEN acc
    ELSE replay_from(replay_entry(acc, stack[i], is_translatable,
                                  is_rotatable, is_boostable, box),
                     stack, i + 1, is_translatable, is_rotatable,
                     is_boostable, box)

apply_transform_stack(data, stack, is_translatable, is_rotatable, is_boostable, box) ==
    replay_from([data |-> data, same |-> TRUE, orig |-> data,
                 err |-> NoError],
                stack, 1, is_translatable, is_rotatable, is_boostable, box)

(***************************************************************************)
(* _SWIFTParticleDatasetHelper._apply_mask: boolean row selection, a copy. *)
(***************************************************************************)
RECURSIVE select_rows(_, _, _)
select_rows(data, mask, k) ==
    IF k > Len(data) THEN <<>>
    ELSE IF mask[k] THEN <<data[k]>> \o select_rows(data, mask, k + 1)
         ELSE select_rows(data, mask, k + 1)

has_mask(xmask, ptype) == xmask # None /\ xmask[1][ptype] # None

apply_mask(xmask, ptype, data) ==
    IF has_mask(xmask, ptype)
    THEN select_rows(data, xmask[1][ptype][1], 1)
    ELSE data

(***************************************************************************)
(* The state of one galaxy as a record, so that the operations compose.    *)
(***************************************************************************)
Cur ==
    [constructed |-> constructed, snapshot |-> snapshot,
     boxsize |-> boxsize, extra_mask |-> extra_mask,
     translatable |-> translatable, boostable |-> boostable,
     rotatable |-> rotatable,
     particle_dataset |-> particle_dataset,
     transform_stack |-> transform_stack,
     cartesian_representation |-> cartesian_representation,
     spherical_representation |-> spherical_representation,
     cylindrical_representation |-> cylindrical_representation,
     raw_fetches |-> raw_fetches, mask_applications |-> mask_applications,
     stack_replays |-> stack_replays, err |-> err]

Becomes(g) ==
    /\ constructed' = g.constructed
    /\ snapshot' = g.snapshot
    /\ boxsize' = g.boxsize
    /\ extra_mask' = g.extra_mask
    /\ translatable' = g.translatable
    /\ boostable' = g.boostable
    /\ rotatable' = g.rotatable
    /\ particle_dataset' = g.particle_dataset
    /\ transform_stack' = g.transform_stack
    /\ cartesian_representation' = g.cartesian_representation
    /\ spherical_representation' = g.spherical_representation
    /\ cylindrical_representation' = g.cylindrical_representation
    /\ raw_fetches' = g.raw_fetches
    /\ mask_applications' = g.mask_applications
    /\ stack_replays' = g.stack_replays
    /\ err' = g.err

loaded(g, ptype, attr) == g.particle_dataset[ptype][attr] # None

(***************************************************************************)
(* _SWIFTParticleDatasetHelper.__getattribute__ for a field name: on a     *)
(* slot that is None, fetch the raw data (the dataset stores it in the     *)
(* slot), mask it, replay the transform stack and store the result; a      *)
(* raise during the replay leaves the slot holding the raw array object.   *)
(***************************************************************************)
read_from_file(g, ptype, attr) ==
    LET raw == g.snapshot[ptype][attr]
        masks == has_mask(g.extra_mask, ptype)
        data == apply_mask(g.extra_mask, ptype, raw)
        rep == apply_transform_stack(data, g.transform_stack,
                                     attr \in g.translatable,
                                     attr \in g.rotatable,
                                     attr \in g.boostable, g.boxsize)
        slot == IF rep.err = NoError THEN rep.data
                ELSE IF masks THEN raw ELSE rep.orig
    IN  [g EXCEPT
            !.particle_dataset[ptype][attr] = Some(slot),
            !.raw_fetches[ptype][attr] = @ + 1,
            !.mask_applications[ptype][attr] = IF masks THEN @ + 1 ELSE @,
            !.stack_replays[ptype][attr] = @ + 1,
            !.err = rep.err]

(* Faulty variant: the slot is not tested for None. *)
getattribute_refetch(g, ptype, attr) == read_from_file(g, ptype, attr)

getattribute(g, ptype, attr) ==
    IF loaded(g, ptype, attr) THEN [g EXCEPT !.err = NoError]
    ELSE read_from_file(g, ptype, attr)

(***************************************************************************)
(* Derived representations.  The cartesian representation is built with    *)
(* copy=False on a view of the coordinates array: while alias is TRUE it   *)
(* shares the memory of the array in the coordinates slot, and once that   *)
(* slot is given another array object it keeps the old array in xyz.       *)
(***************************************************************************)
cartesian_xyz(g, ptype) ==
    LET rep == g.cartesian_representation[ptype][1]
    IN  IF rep.alias THEN g.particle_dataset[ptype]["coordinates"][1]
        ELSE rep.xyz

cartesian_coordinates(g, ptype) ==
    IF g.cartesian_representation[ptype] # None
    THEN [g EXCEPT !.err = NoError]
    ELSE LET g1 == getattribute(g, ptype, "coordinates")
         IN  IF g1.err # NoError THEN g1
             ELSE [g1 EXCEPT !.cartesian_representation[ptype] =
                                 Some([alias |-> TRUE, xyz |-> <<>>])]

from_cartesian(xyz) ==
    [k \in DOMAIN xyz |->
        LET x == xyz[k][1]
            y == xyz[k][2]
            z == xyz[k][3]
            r2 == x * x + y * y + z * z
        IN  [distance2 |-> r2,
             lon |-> Reduce(x, y),
             lat |-> Reduce(Sgn(z) * z * z, r2)]]

spherical_coordinates(g, ptype) ==
    IF g.spherical_representation[ptype] # None
    THEN [g EXCEPT !.err = NoError]
    ELSE LET g1 == cartesian_coordinates(g, ptype)
         IN  IF g1.err # NoError THEN g1
             ELSE [g1 EXCEPT !.spherical_representation[ptype] =
                                 Some(from_cartesian(cartesian_xyz(g1, ptype)))]

cylindrical_coordinates(g, ptype) == [g EXCEPT !.err = "AttributeError"]

detach_cartesian(g, ptype) ==
    IF g.cartesian_representation[ptype] # None
       /\ g.cartesian_representation[ptype][1].alias
    THEN Some([alias |-> FALSE, xyz |-> cartesian_xyz(g, ptype)])
    ELSE g.cartesian_representation[ptype]

(***************************************************************************)
(* _SWIFTParticleDatasetHelper.__setattr__.  A field name, or a field name *)
(* with a leading underscore, is forwarded to the dataset, whose setter    *)
(* stores the value in the field's slot as it is; the slot then holds      *)
(* another array object than before, so a cartesian representation that    *)
(* shared the memory of the old one keeps the old values.  Any other name  *)
(* is set on the helper itself: the names of the three caches are          *)
(* modelled, any other name holds no state of the model.                   *)
(***************************************************************************)
private_names ==
    [_particle_ids |-> "particle_ids", _coordinates |-> "coordinates",
     _velocities |-> "velocities"]

forwards(attr) == attr \in field_names \/ attr \in DOMAIN private_names

field_of(attr) == IF attr \in field_names THEN attr ELSE private_names[attr]

set_helper_attribute(g, ptype, attr, value) ==
    CASE attr = "_cartesian_representation" ->
            [g EXCEPT !.cartesian_representation[ptype] = value,
                      !.err = NoError]
      [] attr = "_spherical_representation" ->
            [g EXCEPT !.spherical_representation[ptype] = value,
                      !.err = NoError]
      [] attr = "_cylindrical_representation" ->
            [g EXCEPT !.cylindrical_representation[ptype] =
                          IF value = None THEN "None" ELSE "set",
                      !.err = NoError]
      [] OTHER -> [g EXCEPT !.err = NoError]

(* Faulty variant: the written value goes through the extra mask. *)
setattr_masked(g, ptype, attr, value) ==
    IF forwards(attr)
    THEN [g EXCEPT
            !.particle_dataset[ptype][field_of(attr)] =
                Some(apply_mask(g.extra_mask, ptype, value[1])),
            !.cartesian_representation[ptype] =
                IF field_of(attr) = "coordinates"
                THEN detach_cartesian(g, ptype) ELSE @,
            !.err = NoError]
    ELSE set_helper_attribute(g, ptype, attr, value)

setattr(g, ptype, attr, value) ==
    IF forwards(attr)
    THEN [g EXCEPT
            !.particle_dataset[ptype][field_of(attr)] = value,
            !.cartesian_representation[ptype] =
                IF field_of(attr) = "coordinates"
                THEN detach_cartesian(g, ptype) ELSE @,
            !.err = NoError]
    ELSE set_helper_attribute(g, ptype, attr, value)

(***************************************************************************)
(* SWIFTGalaxy._void_derived_representations and                           *)
(* SWIFTGalaxy._append_to_transform_stack.                                 *)
(***************************************************************************)
(* Faulty variant: the spherical representations are left as they are. *)
void_cylindrical_only(g) ==
    [g EXCEPT
        !.cylindrical_representation =
            [ptype \in present_particle_names |-> "None"]]

void_derived_representations(g) ==
    [g EXCEPT
        !.spherical_representation =
            [ptype \in present_particle_names |-> None],
        !.cylindrical_representation =
            [ptype \in present_particle_names |-> "None"]]

(* Faulty variant: the new entry is put in front of the others. *)
insert_in_transform_stack(g, transform) ==
    void_derived_representations(
        [g EXCEPT !.transform_stack = <<transform>> \o @])

append_to_transform_stack(g, transform) ==
    void_derived_representations(
        [g EXCEPT !.transform_stack = Append(@, transform)])

(***************************************************************************)
(* SWIFTGalaxy.wrap_box: wrap every loaded translatable field in place;    *)
(* metadata.boxsize is read only once a loaded field is found, and raises  *)
(* AttributeError when the metadata has no box size.                       *)
(***************************************************************************)
wrap_box(g) ==
    IF \E ptype \in present_particle_names, field_name \in g.translatable :
            loaded(g, ptype, field_name)
    THEN IF g.boxsize = None
         THEN [g EXCEPT !.err = "AttributeError"]
         ELSE [g EXCEPT
                 !.particle_dataset =
                    [ptype \in present_particle_names |->
                        [field_name \in field_names |->
                            IF field_name \in g.translatable
                               /\ loaded(g, ptype, field_name)
                            THEN Some(apply_box_wrap(
                                        @[ptype][field_name][1],
                                        g.boxsize[1]))
                            ELSE @[ptype][field_name]]],
                 !.err = NoError]
    ELSE [g EXCEPT !.err = NoError]

(***************************************************************************)
(* SWIFTGalaxy.translate and SWIFTGalaxy.recentre.                         *)
(***************************************************************************)
(* Faulty variant: the box wrap also follows a velocity boost. *)
translate_wraps_always(velocity) == TRUE

translate_wraps(velocity) == ~velocity

(* Faulty variant: the default field names stand in for the configured *)
(* boostable and translatable sets.                                      *)
translate_default_fields(g, translation, velocity) ==
    LET do_fields == IF velocity THEN {"velocities"} ELSE {"coordinates"}
        moved ==
            [g EXCEPT
                !.particle_dataset =
                    [ptype \in present_particle_names |->
                        [field_name \in field_names |->
                            IF field_name \in do_fields
                               /\ loaded(g, ptype, field_name)
                            THEN Some(apply_translation(
                                        @[ptype][field_name][1],
                                        translation))
                            ELSE @[ptype][field_name]]],
                !.err = NoError]
        pushed == append_to_transform_stack(
                      moved, <<IF velocity THEN "B" ELSE "T", translation>>)
    IN  IF translate_wraps(velocity) THEN wrap_box(pushed) ELSE pushed

(* Faulty variant: the fields to shift are read first, which loads them. *)
translate_loading(g, translation, velocity) ==
    LET do_fields == IF velocity THEN g.boostable ELSE g.translatable
        field_name == IF velocity THEN "velocities" ELSE "coordinates"
        g0 == getattribute(getattribute(g, "gas", field_name),
                           "dark_matter", field_name)
        moved ==
            [g0 EXCEPT
                !.particle_dataset =
                    [ptype \in present_particle_names |->
                        [attr \in field_names |->
                            IF attr \in do_fields /\ loaded(g0, ptype, attr)
                            THEN Some(apply_translation(@[ptype][attr][1],
                                                        translation))
                            ELSE @[ptype][attr]]],
                !.err = NoError]
        pushed == append_to_transform_stack(
                      moved, <<IF velocity THEN "B" ELSE "T", translation>>)
    IN  IF translate_wraps(velocity) THEN wrap_box(pushed) ELSE pushed

(* Faulty variant: the box wrap runs before the shift, not after it. *)
translate_wrap_first(g, translation, velocity) ==
    LET do_fields == IF velocity THEN g.boostable ELSE g.translatable
        wrapped == IF translate_wraps(velocity) THEN wrap_box(g) ELSE g
        moved ==
            [wrapped EXCEPT
                !.particle_dataset =
                    [ptype \in present_particle_names |->
                        [field_name \in field_names |->
                            IF field_name \in do_fields
                               /\ loaded(g, ptype, field_name)
                            THEN Some(apply_translation(
                                        @[ptype][field_name][1],
                                        translation))
                            ELSE @[ptype][field_name]]]]
    IN  append_to_transform_stack(
            moved, <<IF velocity THEN "B" ELSE "T", translation>>)

translate(g, translation, velocity) ==
    LET do_fields == IF velocity THEN g.boostable ELSE g.translatable
        moved ==
            [g EXCEPT
                !.particle_dataset =
                    [ptype \in present_particle_names |->
                        [field_name \in field_names |->
                            IF field_name \in do_fields
                               /\ loaded(g, ptype, field_name)
                            THEN Some(apply_translation(
                                        @[ptype][field_name][1],
                                        translation))
                            ELSE @[ptype][field_name]]],
                !.err = NoError]
        pushed == append_to_transform_stack(
                      moved, <<IF velocity THEN "B" ELSE "T", translation>>)
    IN  IF translate_wraps(velocity) THEN wrap_box(pushed) ELSE pushed

(* Faulty variant: the centre is added, not subtracted. *)
recentre_towards(g, new_centre, velocity) == translate(g, new_centre, velocity)

recentre(g, new_centre, velocity) == translate(g, Neg(new_centre), velocity)

(***************************************************************************)
(* SWIFTGalaxy.rotate.  With both arguments it raises ValueError; with     *)
(* neither, rotmat stays None, so dot() raises TypeError at the first      *)
(* loaded rotatable field and, when none is loaded, ('R', None) is pushed. *)
(***************************************************************************)
(* Faulty variant: the check of the two arguments is missing. *)
rotate_rejects_never(angle_axis, rotmat) == FALSE

rotate_rejects(angle_axis, rotmat) == angle_axis # None /\ rotmat # None

rotate(g, angle_axis, rotmat) ==
    IF rotate_rejects(angle_axis, rotmat)
    THEN [g EXCEPT !.err = "ValueError"]
    ELSE LET rm == IF angle_axis # None
                   THEN Some(rotation_matrix(angle_axis[1]))
                   ELSE rotmat
             any_loaded ==
                \E ptype \in present_particle_names,
                   field_name \in g.rotatable : loaded(g, ptype, field_name)
         IN  IF rm = None /\ any_loaded
             THEN [g EXCEPT !.err = "TypeError"]
             ELSE LET turned ==
                        [g EXCEPT
                            !.particle_dataset =
                                [ptype \in present_particle_names |->
                                    [field_name \in field_names |->
                                        IF field_name \in g.rotatable
                                           /\ loaded(g, ptype, field_name)
                                        THEN Some(apply_rotmat(
                                                @[ptype][field_name][1],
                                                rm[1]))
                                        ELSE @[ptype][field_name]]],
                            !.cartesian_representation =
                                [ptype \in present_particle_names |->
                                    IF "coordinates" \in g.rotatable
                                       /\ loaded(g, ptype, "coordinates")
                                    THEN detach_cartesian(g, ptype)
                                    ELSE @[ptype]],
                            !.err = NoError]
                  IN  wrap_box(append_to_transform_stack(turned, <<"R", rm>>))

(***************************************************************************)
(* SWIFTGalaxy.__init__.  The extra_mask argument is a record: bound_only  *)
(* says that the string 'bound_only' was passed, mask is the mask object   *)
(* passed otherwise (or None).  generate_bound_mask reads the identifier   *)
(* field of every species through the helpers and marks the identifiers    *)
(* that belong to the halo.  The eager masking subscripts the identifier   *)
(* slot, which raises TypeError while the slot is None.                    *)
(***************************************************************************)
fresh(snap, box, categories) ==
    [constructed |-> TRUE, snapshot |-> snap, boxsize |-> box,
     extra_mask |-> None,
     translatable |-> categories.translatable,
     boostable |-> categories.boostable,
     rotatable |-> categories.rotatable,
     particle_dataset |->
        [ptype \in present_particle_names |->
            [field_name \in field_names |-> None]],
     transform_stack |-> <<>>,
     cartesian_representation |-> [ptype \in present_particle_names |-> None],
     spherical_representation |-> [ptype \in present_particle_names |-> None],
     cylindrical_representation |->
        [ptype \in present_particle_names |-> "absent"],
     raw_fetches |->
        [ptype \in present_particle_names |-> [field_name \in field_names |-> 0]],
     mask_applications |->
        [ptype \in present_particle_names |-> [field_name \in field_names |-> 0]],
     stack_replays |->
        [ptype \in present_particle_names |-> [field_name \in field_names |-> 0]],
     err |-> NoError]

RECURSIVE read_all(_, _, _)
read_all(g, ptypes, attr) ==
    IF ptypes = {} THEN g
    ELSE LET ptype == CHOOSE p \in ptypes : TRUE
         IN  read_all(getattribute(g, ptype, attr), ptypes \ {ptype}, attr)

generate_bound_mask(g, bound_ids) ==
    LET g1 == read_all(g, present_particle_names, id_particle_dataset_name)
    IN  [g1 EXCEPT
            !.extra_mask =
                Some([ptype \in present_particle_names |->
                        Some([k \in DOMAIN
                                g1.particle_dataset[ptype]
                                    [id_particle_dataset_name][1] |->
                                g1.particle_dataset[ptype]
                                    [id_particle_dataset_name][1][k]
                                    \in bound_ids])])]

subscript(data, mask) ==
    IF mask = None THEN <<data>> ELSE select_rows(data, mask[1], 1)

mask_particle_ids(g) ==
    IF g.extra_mask = None THEN g
    ELSE IF \E ptype \in present_particle_names :
                ~loaded(g, ptype, id_particle_dataset_name)
         THEN [g EXCEPT !.constructed = FALSE, !.err = "TypeError"]
         ELSE [g EXCEPT
                 !.particle_dataset =
                    [ptype \in present_particle_names |->
                        [@[ptype] EXCEPT
                            ![id_particle_dataset_name] =
                                Some(subscript(@[1],
                                               g.extra_mask[1][ptype]))]],
                 !.mask_applications =
                    [ptype \in present_particle_names |->
                        [@[ptype] EXCEPT
                            ![id_particle_dataset_name] = @ + 1]]]

construct(snap, box, categories, extra_mask_arg, bound_ids, auto_recentre, centre, vcentre) ==
    LET g0 == fresh(snap, box, categories)
        g1 == IF extra_mask_arg.bound_only
              THEN generate_bound_mask(g0, bound_ids)
              ELSE [g0 EXCEPT !.extra_mask = extra_mask_arg.mask]
        g2 == mask_particle_ids(g1)
    IN  IF ~g2.constructed THEN g2
        ELSE IF auto_recentre
             THEN recentre(recentre(g2, centre, FALSE), vcentre, TRUE)
             ELSE g2

(***************************************************************************)
(* The snapshot and the inputs of the calls.                               *)
(***************************************************************************)
ToySnapshot ==
    [gas |->
        [particle_ids |-> <<11, 12>>,
         coordinates |-> << <<3, 0, 1>>, <<1, 2, 0>> >>,
         velocities |-> << <<1, 0, 0>>, <<0, -1, 2>> >>],
     dark_matter |->
        [particle_ids |-> <<21, 22>>,
         coordinates |-> << <<0, 3, 2>>, <<2, 1, 3>> >>,
         velocities |-> << <<0, 2, 0>>, <<-1, 0, 1>> >>]]

ToyBoxsize == <<4, 4, 4>>

DefaultCategories ==
    [translatable |-> {"coordinates"}, boostable |-> {"velocities"},
     rotatable |-> {"coordinates", "velocities"}]

PositionsOnly ==
    [translatable |-> {"coordinates"}, boostable |-> {},
     rotatable |-> {"coordinates"}]

BoundIds == {11, 21, 22}

UserMask ==
    [gas |-> Some(<<TRUE, FALSE>>), dark_matter |-> None]

ExtraMaskArgs ==
    {[bound_only |-> FALSE, mask |-> None],
     [bound_only |-> TRUE, mask |-> None],
     [bound_only |-> FALSE, mask |-> Some(UserMask)]}

Offsets == {<<1, 0, -1>>, <<-1, 0, 1>>}

Centres == {<<1, 0, -1>>}

QuarterTurn == Some(<<90, "z">>)

QuarterTurnMatrix == Some(<< <<0, 1, 0>>, <<-1, 0, 0>>, <<0, 0, 1>> >>)

ValidRotateArgs == {<<QuarterTurn, None>>, <<None, QuarterTurnMatrix>>}

RotateArgs == ValidRotateArgs \cup {<<None, None>>, <<QuarterTurn, QuarterTurnMatrix>>}

Is(g) ==
    /\ constructed = g.constructed
    /\ snapshot = g.snapshot
    /\ boxsize = g.boxsize
    /\ extra_mask = g.extra_mask
    /\ translatable = g.translatable
    /\ boostable = g.boostable
    /\ rotatable = g.rotatable
    /\ particle_dataset = g.particle_dataset
    /\ transform_stack = g.transform_stack
    /\ cartesian_representation = g.cartesian_representation
    /\ spherical_representation = g.spherical_representation
    /\ cylindrical_representation = g.cylindrical_representation
    /\ raw_fetches = g.raw_fetches
    /\ mask_applications = g.mask_applications
    /\ stack_replays = g.stack_replays
    /\ err = g.err

(***************************************************************************)
(* The state after construction and the calls of user code.                *)
(***************************************************************************)
Init ==
    \E extra_mask_arg \in ExtraMaskArgs :
        Is(construct(ToySnapshot, Some(ToyBoxsize), DefaultCategories,
                     extra_mask_arg, BoundIds, FALSE, <<0, 0, 0>>,
                     <<0, 0, 0>>))

Read(attrs) ==
    \E ptype \in present_particle_names, attr \in attrs :
        /\ constructed
        /\ Becomes(getattribute(Cur, ptype, attr))

ReadCartesian ==
    \E ptype \in present_particle_names :
        /\ constructed
        /\ Becomes(cartesian_coordinates(Cur, ptype))

ReadSpherical ==
    \E ptype \in present_particle_names :
        /\ constructed
        /\ Becomes(spherical_coordinates(Cur, ptype))

ReadCylindrical ==
    \E ptype \in present_particle_names :
        /\ constructed
        /\ Becomes(cylindrical_coordinates(Cur, ptype))

Translate ==
    \E translation \in Offsets, velocity \in BOOLEAN :
        /\ constructed
        /\ Len(transform_stack) < MaxStack
        /\ Becomes(translate(Cur, translation, velocity))

Recentre ==
    \E new_centre \in Centres, velocity \in BOOLEAN :
        /\ constructed
        /\ Len(transform_stack) < MaxStack
        /\ Becomes(recentre(Cur, new_centre, velocity))

Rotate(args) ==
    \E arg \in args :
        /\ constructed
        /\ Len(rotate(Cur, arg[1], arg[2]).transform_stack) <= MaxStack
        /\ Becomes(rotate(Cur, arg[1], arg[2]))

WrapBox ==
    /\ constructed
    /\ Becomes(wrap_box(Cur))

(***************************************************************************)
(* Spec: every call of user code, the rejected ones included.              *)
(***************************************************************************)
Next ==
    \/ Read(field_names)
    \/ ReadCartesian
    \/ ReadSpherical
    \/ ReadCylindrical
    \/ Translate
    \/ Recentre
    \/ Rotate(RotateArgs)
    \/ WrapBox

Spec == Init /\ [][Next]_vars

(***************************************************************************)
(* SpecUse: the calls that are meant to succeed (rotate is given exactly   *)
(* one of its two arguments, cylindrical_coordinates is not read).         *)
(***************************************************************************)
NextUse ==
    \/ Read(field_names)
    \/ ReadCartesian
    \/ ReadSpherical
    \/ Translate
    \/ Recentre
    \/ Rotate(ValidRotateArgs)
    \/ WrapBox

SpecUse == Init /\ [][NextUse]_vars

(***************************************************************************)
(* SpecPlain: the same calls on a galaxy constructed with coordinates as   *)
(* the only translatable and rotatable field and no boostable field, so    *)
(* that velocities is in no transform category.                            *)
(***************************************************************************)
InitPlain ==
    \E extra_mask_arg \in ExtraMaskArgs :
        Is(construct(ToySnapshot, Some(ToyBoxsize), PositionsOnly,
                     extra_mask_arg, BoundIds, FALSE, <<0, 0, 0>>,
                     <<0, 0, 0>>))

SpecPlain == InitPlain /\ [][NextUse]_vars

(***************************************************************************)
(* SpecTranslate: field reads and the translate, recentre and wrap_box     *)
(* calls.                                                                  *)
(***************************************************************************)
NextTranslate ==
    \/ Read(field_names)
    \/ Translate
    \/ Recentre
    \/ WrapBox

SpecTranslate == Init /\ [][NextTranslate]_vars

(***************************************************************************)
(* SpecRotate: reads of the rotatable fields and of the derived            *)
(* representations, and rotate calls with every combination of the two     *)
(* arguments of rotate, the rejected ones included.                        *)
(***************************************************************************)
NextRotate ==
    \/ Read({"coordinates", "velocities"})
    \/ ReadCartesian
    \/ ReadSpherical
    \/ Rotate(RotateArgs)

SpecRotate == Init /\ [][NextRotate]_vars

(***************************************************************************)
(* SpecWrap: _apply_box_wrap on bounded inputs.  The galaxy is constructed *)
(* on a snapshot whose gas coordinates are an input row and its negation,  *)
(* in a box with an input length per axis; user code reads the coordinates *)
(* (the stack is empty, so they are loaded as they are in the file) and    *)
(* calls wrap_box.                                                         *)
(***************************************************************************)
InputRows ==
    {<<x, y, z>> : x \in -MaxCoord..MaxCoord, y \in -MaxCoord..MaxCoord,
                   z \in -MaxCoord..MaxCoord}

InputBoxes == {<<a, b, c>> : a \in 1..MaxBox, b \in 1..MaxBox, c \in 1..MaxBox}

InitWrap ==
    \E row \in InputRows, box \in InputBoxes :
        Is(construct([ToySnapshot EXCEPT
                         !["gas"]["coordinates"] = <<row, Neg(row)>>],
                     Some(box), DefaultCategories,
                     [bound_only |-> FALSE, mask |-> None], BoundIds, FALSE,
                     <<0, 0, 0>>, <<0, 0, 0>>))

NextWrap ==
    \/ Read({"coordinates"})
    \/ WrapBox

SpecWrap == InitWrap /\ [][NextWrap]_vars

(***************************************************************************)
(* SpecRecentre: the galaxy is constructed with auto_recentre on a halo    *)
(* whose centre and velocity centre come from the catalogue; user code     *)
(* reads fields and derived representations and calls wrap_box.            *)
(***************************************************************************)
HaloCentres == {<<3, 0, 1>>, <<2, 1, 3>>}

HaloVelocityCentres == {<<1, 0, 0>>, <<0, 2, 0>>}

InitRecentre ==
    \E extra_mask_arg \in ExtraMaskArgs, centre \in HaloCentres,
       vcentre \in HaloVelocityCentres :
        Is(construct(ToySnapshot, Some(ToyBoxsize), DefaultCategories,
                     extra_mask_arg, BoundIds, TRUE, centre, vcentre))

NextRecentre ==
    \/ Read(field_names)
    \/ ReadCartesian
    \/ ReadSpherical
    \/ WrapBox

SpecRecentre == InitRecentre /\ [][NextRecentre]_vars

(***************************************************************************)
(* SpecDerived: reads of the coordinates and of the three derived          *)
(* representations between translate and rotate calls.                     *)
(***************************************************************************)
NextDerived ==
    \/ Read({"coordinates"})
    \/ ReadCartesian
    \/ ReadSpherical
    \/ ReadCylindrical
    \/ Translate
    \/ Rotate(ValidRotateArgs)

SpecDerived == Init /\ [][NextDerived]_vars

(***************************************************************************)
(* SpecNoBox: the calls of SpecUse on a galaxy whose snapshot metadata has *)
(* no box size (non-periodic case).                                        *)
(***************************************************************************)
InitNoBox ==
    \E extra_mask_arg \in ExtraMaskArgs :
        Is(construct(ToySnapshot, None, DefaultCategories, extra_mask_arg,
                     BoundIds, FALSE, <<0, 0, 0>>, <<0, 0, 0>>))

SpecNoBox == InitNoBox /\ [][NextUse]_vars

(***************************************************************************)
(* SpecWrite: user code also assigns to attributes of the species proxies: *)
(* an array to the coordinates of the gas (by the field's name or by the   *)
(* name of its slot) and None to the cache of the cartesian representation *)
(* or to a name of its own.                                                *)
(***************************************************************************)
WrittenArrays == {<< <<2, -3, 0>>, <<0, 1, 5>> >>}

HelperNames == {"_cartesian_representation", "note"}

WriteField(ptypes, attrs) ==
    \E ptype \in ptypes, attr \in attrs, value \in WrittenArrays :
        /\ constructed
        /\ Becomes(setattr(Cur, ptype, attr, Some(value)))

WriteOther ==
    \E ptype \in present_particle_names, attr \in HelperNames :
        /\ constructed
        /\ Becomes(setattr(Cur, ptype, attr, None))

NextWrite ==
    \/ Read({"coordinates"})
    \/ ReadCartesian
    \/ WriteField({"gas"}, {"coordinates", "_coordinates"})
    \/ WriteOther
    \/ Translate
    \/ Recentre
    \/ Rotate(ValidRotateArgs)
    \/ WrapBox

SpecWrite == Init /\ [][NextWrite]_vars

(***************************************************************************)
(* SpecReplay: first reads of the coordinates and of the velocities at any *)
(* point of a sequence of translate, recentre and rotate calls.            *)
(***************************************************************************)
NextReplay ==
    \/ Read({"coordinates", "velocities"})
    \/ Translate
    \/ Recentre
    \/ Rotate(ValidRotateArgs)

SpecReplay == Init /\ [][NextReplay]_vars

(***************************************************************************)
(* SpecTransform: field reads and every transform call, rotate with every  *)
(* combination of its two arguments included.                              *)
(***************************************************************************)
NextTransform ==
    \/ Read(field_names)
    \/ Translate
    \/ Recentre
    \/ Rotate(RotateArgs)
    \/ WrapBox

SpecTransform == Init /\ [][NextTransform]_vars

(***************************************************************************)
(* C1  Cache-once: over any sequence of field reads, derived               *)
(* representation reads, translate, recentre, rotate and wrap_box calls,   *)
(* every field of every species is fetched from the snapshot at most once, *)
(* masked at most once and has the transform stack replayed on it at most  *)
(* once, and a read of a field that is already loaded changes nothing: no  *)
(* slot, no counter, no derived representation.                            *)
(***************************************************************************)
CacheOnce ==
    constructed =>
        \A ptype \in present_particle_names, attr \in field_names :
            /\ raw_fetches[ptype][attr] <= 1
            /\ mask_applications[ptype][attr] <= 1
            /\ stack_replays[ptype][attr] <= 1
            /\ loaded(Cur, ptype, attr) =>
                    getattribute(Cur, ptype, attr) = [Cur EXCEPT !.err = NoError]

CacheOnceWitness ==
    /\ Len(transform_stack) = MaxStack
    /\ transform_stack[1][1] = "R"
    /\ raw_fetches["gas"]["coordinates"] = 1
    /\ raw_fetches["gas"]["velocities"] = 1
    /\ cartesian_representation["gas"] # None
    /\ ~cartesian_representation["gas"][1].alias
    /\ spherical_representation["gas"] # None
(***************************************************************************)
(* C2  For every species, whenever a cartesian representation is cached,   *)
(* the x, y and z it returns are columns 0, 1 and 2 of the value that the  *)
(* coordinates field has at that moment.                                   *)
(***************************************************************************)
column(xyz, axis) == [k \in DOMAIN xyz |-> xyz[k][axis]]

CartesianMatchesCoordinates ==
    \A ptype \in present_particle_names :
        cartesian_representation[ptype] # None =>
            \A axis \in 1..3 :
                column(cartesian_xyz(Cur, ptype), axis)
                    = column(particle_dataset[ptype]["coordinates"][1], axis)

(***************************************************************************)
(* C3  Category isolation: a field that is in none of the translatable,    *)
(* boostable and rotatable sets holds, whenever it is loaded, exactly its  *)
(* masked raw data, whatever translate, recentre, rotate and wrap_box      *)
(* calls came before or after its first read.                              *)
(***************************************************************************)
uncategorised == field_names \ (translatable \cup boostable \cup rotatable)

CategoryIsolation ==
    constructed =>
        \A ptype \in present_particle_names, attr \in uncategorised :
            loaded(Cur, ptype, attr) =>
                particle_dataset[ptype][attr][1]
                    = apply_mask(extra_mask, ptype, snapshot[ptype][attr])

CategoryIsolationWitness ==
    /\ "velocities" \in uncategorised
    /\ Len(transform_stack) = MaxStack
    /\ transform_stack[1][1] = "B"
    /\ transform_stack[2][1] = "R"
    /\ loaded(Cur, "gas", "velocities")
    /\ loaded(Cur, "dark_matter", "particle_ids")
    /\ cartesian_representation["gas"] # None
    /\ ~cartesian_representation["gas"][1].alias
(***************************************************************************)
(* C4  The extra mask is applied exactly once to every field: when an      *)
(* extra mask is configured the galaxy is constructed, every loaded field  *)
(* of a species (the identifier field included) has exactly the rows that  *)
(* the species' mask selects from the snapshot, and all rows when the      *)
(* species' mask entry is None.                                            *)
(***************************************************************************)
ExtraMaskAppliedOnce ==
    extra_mask # None =>
        /\ constructed
        /\ \A ptype \in present_particle_names, attr \in field_names :
                loaded(Cur, ptype, attr) =>
                    /\ Len(particle_dataset[ptype][attr][1])
                          = Len(apply_mask(extra_mask, ptype,
                                           snapshot[ptype][attr]))
                    /\ attr = id_particle_dataset_name =>
                          particle_dataset[ptype][attr][1]
                            = apply_mask(extra_mask, ptype,
                                         snapshot[ptype][attr])

(***************************************************************************)
(* C5  Box wrap result: whatever array a loaded translatable field holds   *)
(* and whatever the positive box lengths, wrap_box leaves in it an array   *)
(* whose every component differs from the component before by an integer   *)
(* multiple of the box length of its axis and lies in (-L/2, L/2]; a       *)
(* component equal to L/2 stays and a component equal to -L/2 becomes L/2. *)
(***************************************************************************)
in_box(x, L) == -L < 2 * x /\ 2 * x <= L

BoxWrapResult ==
    constructed =>
        \A ptype \in present_particle_names, attr \in translatable :
            loaded(Cur, ptype, attr) =>
                LET before == particle_dataset[ptype][attr][1]
                    after == wrap_box(Cur).particle_dataset[ptype][attr][1]
                    L == boxsize[1]
                IN  /\ DOMAIN after = DOMAIN before
                    /\ \A k \in DOMAIN before, axis \in 1..3 :
                          /\ in_box(after[k][axis], L[axis])
                          /\ (after[k][axis] - before[k][axis]) % L[axis] = 0
                          /\ 2 * before[k][axis] = L[axis] =>
                                after[k][axis] = before[k][axis]
                          /\ 2 * before[k][axis] = -L[axis] =>
                                2 * after[k][axis] = L[axis]

BoxWrapResultWitness ==
    /\ loaded(Cur, "gas", "coordinates")
    /\ boxsize = Some(<<1, 2, 2>>)
    /\ snapshot["gas"]["coordinates"][1] = <<3, -1, 1>>
    /\ particle_dataset["gas"]["coordinates"][1] = << <<0, 1, 1>>, <<0, 1, 1>> >>

(***************************************************************************)
(* C6  Invalidation: every call that pushes a transform (rotate, translate *)
(* or recentre) leaves the spherical and the cylindrical representation of *)
(* every species unset, and a spherical representation that becomes set is *)
(* computed from the cartesian representation as it is at that read.       *)
(***************************************************************************)
InvalidationOnPush ==
    /\ [][Len(transform_stack') > Len(transform_stack) =>
            \A ptype \in present_particle_names :
                /\ spherical_representation'[ptype] = None
                /\ cylindrical_representation'[ptype] = "None"]_vars
    /\ [][\A ptype \in present_particle_names :
            (spherical_representation[ptype] = None
             /\ spherical_representation'[ptype] # None) =>
                spherical_representation'[ptype][1]
                    = from_cartesian(cartesian_xyz(Cur, ptype)')]_vars

InvalidationOnPushWitness ==
    /\ Len(transform_stack) = MaxStack
    /\ transform_stack[1][1] = "T"
    /\ transform_stack[2][1] = "R"
    /\ \A ptype \in present_particle_names :
            /\ cartesian_representation[ptype] # None
            /\ ~cartesian_representation[ptype][1].alias
            /\ cylindrical_representation[ptype] = "None"
    /\ spherical_representation["gas"] # None
    /\ spherical_representation["dark_matter"] = None

(***************************************************************************)
(* C7  rotate with neither angle_axis nor rotmat raises an error and       *)
(* leaves the transform stack, every field slot and every derived          *)
(* representation as they were.                                            *)
(***************************************************************************)
unmutated ==
    UNCHANGED <<transform_stack, particle_dataset, cartesian_representation,
                spherical_representation, cylindrical_representation>>

RotateNeitherRejected ==
    [][Becomes(rotate(Cur, None, None)) => (err' # NoError /\ unmutated)]_vars

(***************************************************************************)
(* C8  rotate with both angle_axis and rotmat raises ValueError and leaves *)
(* the transform stack, every field slot and every derived representation  *)
(* as they were.                                                           *)
(***************************************************************************)
RotateBothRejected ==
    [][Becomes(rotate(Cur, QuarterTurn, QuarterTurnMatrix)) =>
            (err' = "ValueError" /\ unmutated)]_vars

RotateBothRejectedWitness ==
    /\ err = "ValueError"
    /\ Len(transform_stack) >= 1
    /\ loaded(Cur, "gas", "coordinates")
    /\ loaded(Cur, "dark_matter", "velocities")
    /\ cartesian_representation["gas"] # None
    /\ spherical_representation["gas"] # None

(***************************************************************************)
(* C9  Round-trip translate: for every trial offset v (some of them longer *)
(* than the box), translate(v) followed by                                 *)
(* translate(-v) leaves every loaded translatable field whose values were  *)
(* in (-L/2, L/2] with the values it had, and translate(v, velocity=True)  *)
(* followed by translate(-v, velocity=True) does so for every loaded       *)
(* boostable field.                                                        *)
(***************************************************************************)
TrialOffsets ==
    Offsets \cup {<<2, 2, 2>>, <<5, -7, 9>>}

array_in_box(coords, L) ==
    \A k \in DOMAIN coords, axis \in 1..3 : in_box(coords[k][axis], L[axis])

RoundTripTranslate ==
    constructed =>
        \A v \in TrialOffsets :
            LET there_and_back ==
                    translate(translate(Cur, v, FALSE), Neg(v), FALSE)
                        .particle_dataset
                boost_and_back ==
                    translate(translate(Cur, v, TRUE), Neg(v), TRUE)
                        .particle_dataset
            IN  \A ptype \in present_particle_names :
                    /\ \A attr \in translatable :
                            (loaded(Cur, ptype, attr)
                             /\ array_in_box(particle_dataset[ptype][attr][1],
                                             boxsize[1])) =>
                                there_and_back[ptype][attr]
                                    = particle_dataset[ptype][attr]
                    /\ \A attr \in boostable :
                            loaded(Cur, ptype, attr) =>
                                boost_and_back[ptype][attr]
                                    = particle_dataset[ptype][attr]

RoundTripTranslateWitness ==
    /\ Len(transform_stack) = 2
    /\ transform_stack[1] = <<"T", <<1, 0, -1>> >>
    /\ transform_stack[2] = <<"T", <<-1, 0, 1>> >>
    /\ loaded(Cur, "gas", "velocities")
    /\ particle_dataset["gas"]["coordinates"] = Some(<< <<-1, 0, 1>>, <<1, 2, 0>> >>)
    /\ translate(Cur, <<-1, 0, 1>>, FALSE).particle_dataset["gas"]["coordinates"]
          # Some(apply_translation(particle_dataset["gas"]["coordinates"][1],
                                   <<-1, 0, 1>>))

(***************************************************************************)
(* C10  Wrap idempotence: wrapping an array that wrap returned gives the   *)
(* same array, and a second wrap_box call leaves every field slot as the   *)
(* first call left it.                                                     *)
(***************************************************************************)
WrapIdempotent ==
    constructed =>
        /\ \A ptype \in present_particle_names, attr \in translatable :
                loaded(Cur, ptype, attr) =>
                    LET A == particle_dataset[ptype][attr][1]
                        L == boxsize[1]
                    IN  apply_box_wrap(apply_box_wrap(A, L), L)
                          = apply_box_wrap(A, L)
        /\ wrap_box(wrap_box(Cur)).particle_dataset
              = wrap_box(Cur).particle_dataset

WrapIdempotentWitness ==
    /\ loaded(Cur, "gas", "coordinates")
    /\ loaded(Cur, "dark_matter", "coordinates")
    /\ boxsize = Some(<<2, 1, 2>>)
    /\ snapshot["gas"]["coordinates"][1] = <<-3, 2, 3>>
    /\ particle_dataset["gas"]["coordinates"][1] = << <<1, 0, 1>>, <<1, 0, 1>> >>
    /\ wrap_box(Cur).particle_dataset = particle_dataset

(***************************************************************************)
(* C11  Auto-recentre: after construction with auto_recentre the transform *)
(* stack holds exactly the translation by minus the halo centre followed   *)
(* by the boost by minus the halo velocity centre; every translatable      *)
(* field read afterwards is the periodic image in (-L/2, L/2] of its       *)
(* masked raw data minus the centre (so a raw position equal to the centre *)
(* reads as 0) and every boostable field is its masked raw data minus the  *)
(* velocity centre; construction without auto_recentre leaves the stack    *)
(* empty.                                                                  *)
(***************************************************************************)
categories ==
    [translatable |-> translatable, boostable |-> boostable,
     rotatable |-> rotatable]

AutoRecentreFrame ==
    constructed =>
        /\ \E centre \in HaloCentres, vcentre \in HaloVelocityCentres :
            /\ transform_stack
                  = << <<"T", Neg(centre)>>, <<"B", Neg(vcentre)>> >>
            /\ \A ptype \in present_particle_names, attr \in field_names :
                  loaded(Cur, ptype, attr) =>
                    LET raw == apply_mask(extra_mask, ptype,
                                          snapshot[ptype][attr])
                        val == particle_dataset[ptype][attr][1]
                    IN  /\ DOMAIN val = DOMAIN raw
                        /\ attr \in translatable =>
                              \A k \in DOMAIN raw, axis \in 1..3 :
                                /\ in_box(val[k][axis], boxsize[1][axis])
                                /\ (val[k][axis]
                                      - (raw[k][axis] - centre[axis]))
                                        % boxsize[1][axis] = 0
                                /\ raw[k][axis] = centre[axis] =>
                                      val[k][axis] = 0
                        /\ attr \in boostable =>
                              \A k \in DOMAIN raw, axis \in 1..3 :
                                val[k][axis] = raw[k][axis] - vcentre[axis]
        /\ \A extra_mask_arg \in ExtraMaskArgs :
              construct(snapshot, boxsize, categories, extra_mask_arg,
                        BoundIds, FALSE, <<0, 0, 0>>, <<0, 0, 0>>)
                  .transform_stack = <<>>

AutoRecentreFrameWitness ==
    /\ transform_stack = << <<"T", <<-3, 0, -1>> >>, <<"B", <<-1, 0, 0>> >> >>
    /\ extra_mask # None
    /\ particle_dataset["gas"]["coordinates"] = Some(<< <<0, 0, 0>> >>)
    /\ particle_dataset["gas"]["velocities"] = Some(<< <<0, 0, 0>> >>)
    /\ particle_dataset["dark_matter"]["coordinates"]
          = Some(<< <<1, -1, 1>>, <<-1, 1, 2>> >>)
    /\ cartesian_representation["gas"] # None

(***************************************************************************)
(* C12  The three derived representations are available and memoized: in   *)
(* every state, for every species, a read of cartesian_coordinates, of     *)
(* spherical_coordinates and of cylindrical_coordinates raises nothing and *)
(* leaves the representation cached, and a second read changes nothing.    *)
(***************************************************************************)
DerivedRepresentationsMemoized ==
    constructed =>
        \A ptype \in present_particle_names :
            LET c == cartesian_coordinates(Cur, ptype)
                s == spherical_coordinates(Cur, ptype)
                y == cylindrical_coordinates(Cur, ptype)
            IN  /\ c.err = NoError
                /\ c.cartesian_representation[ptype] # None
                /\ cartesian_coordinates(c, ptype) = c
                /\ s.err = NoError
                /\ s.spherical_representation[ptype] # None
                /\ spherical_coordinates(s, ptype) = s
                /\ y.err = NoError
                /\ y.cylindrical_representation[ptype] \notin {"absent", "None"}
                /\ cylindrical_coordinates(y, ptype) = y

(* The part of the statement about the cartesian and the spherical       *)
(* representation alone.                                                 *)
CartesianSphericalMemoized ==
    constructed =>
        \A ptype \in present_particle_names :
            LET c == cartesian_coordinates(Cur, ptype)
                s == spherical_coordinates(Cur, ptype)
            IN  /\ c.err = NoError
                /\ c.cartesian_representation[ptype] # None
                /\ cartesian_coordinates(c, ptype) = c
                /\ s.err = NoError
                /\ s.spherical_representation[ptype] # None
                /\ spherical_coordinates(s, ptype) = s

(***************************************************************************)
(* C13  Absent box size: when the metadata has no box size, no field read  *)
(* and no translate, recentre, rotate or wrap_box call raises.             *)
(***************************************************************************)
AbsentBoxNoError ==
    (constructed /\ boxsize = None) => err = NoError

(* Without a box size a field read never raises and wraps nothing: the   *)
(* value it loads is the masked raw data with the matching transforms    *)
(* applied.                                                              *)
AbsentBoxReadNoError ==
    (constructed /\ boxsize = None) =>
        \A ptype \in present_particle_names, attr \in field_names :
            getattribute(Cur, ptype, attr).err = NoError

(***************************************************************************)
(* C14  Frame of a velocity boost: translate(offset, velocity=True) adds   *)
(* the offset to every loaded boostable field, appends one boost entry to  *)
(* the stack, leaves every other field slot as it was (loaded fields that  *)
(* are not boostable keep their values, unwrapped; unloaded fields stay    *)
(* unloaded) and leaves the cartesian representation of every species as   *)
(* it was, cached and with the same x, y, z.                               *)
(***************************************************************************)
BoostFrame ==
    constructed =>
        \A offset \in Offsets :
            LET g == translate(Cur, offset, TRUE)
            IN  /\ g.err = NoError
                /\ g.transform_stack
                      = Append(transform_stack, <<"B", offset>>)
                /\ \A ptype \in present_particle_names, attr \in field_names :
                      g.particle_dataset[ptype][attr] =
                        IF attr \in boostable /\ loaded(Cur, ptype, attr)
                        THEN Some(apply_translation(
                                    particle_dataset[ptype][attr][1], offset))
                        ELSE particle_dataset[ptype][attr]
                /\ g.cartesian_representation = cartesian_representation
                /\ \A ptype \in present_particle_names :
                      cartesian_representation[ptype] # None =>
                        cartesian_xyz(g, ptype) = cartesian_xyz(Cur, ptype)

BoostFrameWitness ==
    /\ transform_stack = << <<"B", <<1, 0, -1>> >>, <<"B", <<1, 0, -1>> >> >>
    /\ loaded(Cur, "gas", "velocities")
    /\ loaded(Cur, "gas", "coordinates")
    /\ particle_dataset["gas"]["velocities"][1][1] = <<3, 0, -2>>
    /\ particle_dataset["gas"]["coordinates"][1][1] = <<3, 0, 1>>
    /\ ~loaded(Cur, "dark_matter", "velocities")
    /\ cartesian_representation["gas"] # None
    /\ cartesian_representation["gas"][1].alias

(***************************************************************************)
(* C15  Write forwarding: an array assigned to a field of a species proxy  *)
(* (by the field's name or by the name of its slot) is stored in that      *)
(* field's slot as it is, unmasked and untransformed, no other slot        *)
(* changes, and the next read of the field returns the assigned array      *)
(* without a raw fetch, a mask application or a stack replay; an           *)
(* assignment to any other name changes no field slot.                     *)
(***************************************************************************)
AssignableNames == field_names \cup DOMAIN private_names

OtherNames ==
    {"_cartesian_representation", "_spherical_representation",
     "_cylindrical_representation", "note"}

WriteForwarding ==
    constructed =>
        /\ \A ptype \in present_particle_names, attr \in AssignableNames,
              value \in WrittenArrays :
                LET g == setattr(Cur, ptype, attr, Some(value))
                    r == getattribute(g, ptype, field_of(attr))
                IN  /\ g.particle_dataset =
                          [particle_dataset EXCEPT
                              ![ptype][field_of(attr)] = Some(value)]
                    /\ g.raw_fetches = raw_fetches
                    /\ r.err = NoError
                    /\ r.particle_dataset[ptype][field_of(attr)] = Some(value)
                    /\ r.raw_fetches = raw_fetches
                    /\ r.mask_applications = mask_applications
                    /\ r.stack_replays = stack_replays
        /\ \A ptype \in present_particle_names, attr \in OtherNames :
                LET g == setattr(Cur, ptype, attr, None)
                IN  /\ g.particle_dataset = particle_dataset
                    /\ g.transform_stack = transform_stack
                    /\ g.raw_fetches = raw_fetches

WriteForwardingWitness ==
    /\ extra_mask # None
    /\ has_mask(extra_mask, "gas")
    /\ Len(transform_stack) = MaxStack
    /\ transform_stack[1][1] = "T"
    /\ particle_dataset["gas"]["coordinates"] = Some(<< <<2, -3, 0>>, <<0, 1, 5>> >>)
    /\ raw_fetches["gas"]["coordinates"] = 0
    /\ loaded(Cur, "dark_matter", "coordinates")
    /\ cartesian_representation["dark_matter"] # None

(***************************************************************************)
(* C16  Lazy replay order and category matching: the value of a first read *)
(* is reached from the masked raw data by going through the stack in       *)
(* insertion order, where an entry whose kind matches a category of the    *)
(* field applies its transform (up to the periodic image) and an entry     *)
(* that does not match leaves the values as they were.                     *)
(***************************************************************************)
matches(entry, attr) ==
    \/ entry[1] = "T" /\ attr \in translatable
    \/ entry[1] = "B" /\ attr \in boostable
    \/ entry[1] = "R" /\ attr \in rotatable

entry_applied(entry, attr, data) ==
    IF ~matches(entry, attr) THEN data
    ELSE IF entry[1] = "R" THEN apply_rotmat(data, entry[2][1])
         ELSE apply_translation(data, entry[2])

replayed(ptype, attr, i) ==
    apply_transform_stack(apply_mask(extra_mask, ptype, snapshot[ptype][attr]),
                          SubSeq(transform_stack, 1, i),
                          attr \in translatable, attr \in rotatable,
                          attr \in boostable, boxsize).data

first_read(ptype, attr) ==
    getattribute(Cur, ptype, attr).particle_dataset[ptype][attr]

ReplayMatchesCategories ==
    constructed =>
        \A ptype \in present_particle_names, attr \in field_names :
            /\ \A i \in 1..Len(transform_stack) :
                  LET before == replayed(ptype, attr, i - 1)
                      after == replayed(ptype, attr, i)
                      moved == entry_applied(transform_stack[i], attr, before)
                  IN  IF matches(transform_stack[i], attr)
                      THEN \/ after = moved
                           \/ /\ attr \in translatable
                              /\ boxsize # None
                              /\ after = apply_box_wrap(moved, boxsize[1])
                      ELSE after = before
            /\ ~loaded(Cur, ptype, attr) =>
                  first_read(ptype, attr)
                      = Some(replayed(ptype, attr, Len(transform_stack)))

(***************************************************************************)
(* C17  Wrap rule of lazy replay, as stated: in the replay for a           *)
(* translatable field with a box size, the field is wrapped right after    *)
(* each translation or boost entry and is not wrapped after a rotation     *)
(* entry.                                                                  *)
(***************************************************************************)
replay_raises(ptype, attr, i) ==
    apply_transform_stack(apply_mask(extra_mask, ptype, snapshot[ptype][attr]),
                          SubSeq(transform_stack, 1, i),
                          attr \in translatable, attr \in rotatable,
                          attr \in boostable, boxsize).err # NoError

ReplayWrapsAfterShiftsOnly ==
    (constructed /\ boxsize # None) =>
        \A ptype \in present_particle_names, attr \in translatable :
            \A i \in 1..Len(transform_stack) :
                ~replay_raises(ptype, attr, i) =>
                    LET moved == entry_applied(transform_stack[i], attr,
                                               replayed(ptype, attr, i - 1))
                    IN  replayed(ptype, attr, i) =
                            IF transform_stack[i][1] \in {"T", "B"}
                            THEN apply_box_wrap(moved, boxsize[1])
                            ELSE moved

(***************************************************************************)
(* C17 (amended)  In the replay for a translatable field with a box size,  *)
(* the field is wrapped right after every stack entry that the replay      *)
(* processes: translation, boost or rotation, applied to the field or not. *)
(***************************************************************************)
ReplayWrapsAfterEveryEntry ==
    (constructed /\ boxsize # None) =>
        \A ptype \in present_particle_names, attr \in translatable :
            /\ \A i \in 1..Len(transform_stack) :
                  ~replay_raises(ptype, attr, i) =>
                      replayed(ptype, attr, i) =
                          apply_box_wrap(
                              entry_applied(transform_stack[i], attr,
                                            replayed(ptype, attr, i - 1)),
                              boxsize[1])
            /\ (~loaded(Cur, ptype, attr)
                /\ ~replay_raises(ptype, attr, Len(transform_stack))) =>
                  first_read(ptype, attr)
                      = Some(replayed(ptype, attr, Len(transform_stack)))

ReplayWrapsAfterEveryEntryWitness ==
    /\ extra_mask = None
    /\ transform_stack = << <<"R", QuarterTurnMatrix>> >>
    /\ particle_dataset["gas"]["coordinates"]
          = Some(<< <<0, -1, 1>>, <<2, 1, 0>> >>)
    /\ ~loaded(Cur, "dark_matter", "coordinates")
    /\ first_read("dark_matter", "coordinates")
          = Some(<< <<1, 0, 2>>, <<-1, 2, -1>> >>)

(***************************************************************************)
(* C18  Loaded positions stay in the box: with a box size configured, once *)
(* a rotate or a spatial translate or recentre has returned (the stack     *)
(* holds a rotation or a translation entry), every loaded translatable     *)
(* field of every species, whether loaded before or after that call, has   *)
(* all its components in (-L/2, L/2].                                      *)
(***************************************************************************)
spatial_entry_pushed ==
    \E i \in 1..Len(transform_stack) : transform_stack[i][1] \in {"T", "R"}

LoadedPositionsInBox ==
    (constructed /\ boxsize # None /\ spatial_entry_pushed) =>
        \A ptype \in present_particle_names, attr \in translatable :
            loaded(Cur, ptype, attr) =>
                array_in_box(particle_dataset[ptype][attr][1], boxsize[1])

LoadedPositionsInBoxWitness ==
    /\ extra_mask = None
    /\ Len(transform_stack) = MaxStack
    /\ transform_stack[1] = <<"B", <<1, 0, -1>> >>
    /\ transform_stack[2] = <<"R", QuarterTurnMatrix>>
    /\ particle_dataset["gas"]["coordinates"]
          = Some(<< <<0, -1, 1>>, <<2, 1, 0>> >>)
    /\ loaded(Cur, "dark_matter", "coordinates")
    /\ raw_fetches["dark_matter"]["velocities"] = 1

(***************************************************************************)
(* C19  Eager and lazy paths agree: for every field that is not loaded yet *)
(* and every translate (spatial or velocity), recentre or rotate call,     *)
(* reading the field and then making the call (the call updates the field  *)
(* in place) leaves the field with the same value as making the call and   *)
(* then reading the field (the read replays the stack); by induction the   *)
(* same holds for every sequence of calls.                                 *)
(***************************************************************************)
same_field(eager, lazy, ptype, attr) ==
    (eager.err = NoError /\ lazy.err = NoError) =>
        eager.particle_dataset[ptype][attr] = lazy.particle_dataset[ptype][attr]

EagerLazyAgree ==
    constructed =>
        \A ptype \in present_particle_names, attr \in field_names :
            ~loaded(Cur, ptype, attr) =>
                LET read == getattribute(Cur, ptype, attr)
                IN  /\ \A offset \in Offsets, velocity \in BOOLEAN :
                          same_field(
                              translate(read, offset, velocity),
                              getattribute(translate(Cur, offset, velocity),
                                           ptype, attr),
                              ptype, attr)
                    /\ \A new_centre \in Centres, velocity \in BOOLEAN :
                          same_field(
                              recentre(read, new_centre, velocity),
                              getattribute(recentre(Cur, new_centre, velocity),
                                           ptype, attr),
                              ptype, attr)
                    /\ \A arg \in ValidRotateArgs :
                          same_field(
                              rotate(read, arg[1], arg[2]),
                              getattribute(rotate(Cur, arg[1], arg[2]),
                                           ptype, attr),
                              ptype, attr)

(* The same statement without the velocity boosts. *)
EagerLazyAgreeSpatial ==
    constructed =>
        \A ptype \in present_particle_names, attr \in field_names :
            ~loaded(Cur, ptype, attr) =>
                LET read == getattribute(Cur, ptype, attr)
                IN  /\ \A offset \in Offsets :
                          same_field(
                              translate(read, offset, FALSE),
                              getattribute(translate(Cur, offset, FALSE),
                                           ptype, attr),
                              ptype, attr)
                    /\ \A arg \in ValidRotateArgs :
                          same_field(
                              rotate(read, arg[1], arg[2]),
                              getattribute(rotate(Cur, arg[1], arg[2]),
                                           ptype, attr),
                              ptype, attr)

(***************************************************************************)
(* C20  The transform stack is append-only: every step either leaves the   *)
(* stack as it was or appends one entry at its end; in every state, a      *)
(* translate, recentre or rotate call that raises nothing appends exactly  *)
(* its own entry, and a field read, a field write, a write of another      *)
(* attribute, a read of a derived representation and wrap_box leave the    *)
(* stack as it was.                                                        *)
(***************************************************************************)
pushes(g, entry) ==
    g.err = NoError => g.transform_stack = Append(transform_stack, entry)

keeps_stack(g) == g.transform_stack = transform_stack

VectorNames == {"coordinates", "_coordinates", "velocities", "_velocities"}

StackAppendOnly ==
    /\ [][\/ UNCHANGED transform_stack
          \/ /\ Len(transform_stack') = Len(transform_stack) + 1
             /\ SubSeq(transform_stack', 1, Len(transform_stack))
                  = transform_stack]_vars
    /\ [](constructed =>
            /\ \A offset \in Offsets, velocity \in BOOLEAN :
                  pushes(translate(Cur, offset, velocity),
                         <<IF velocity THEN "B" ELSE "T", offset>>)
            /\ \A new_centre \in Centres, velocity \in BOOLEAN :
                  pushes(recentre(Cur, new_centre, velocity),
                         <<IF velocity THEN "B" ELSE "T", Neg(new_centre)>>)
            /\ \A arg \in ValidRotateArgs :
                  pushes(rotate(Cur, arg[1], arg[2]),
                         <<"R", QuarterTurnMatrix>>)
            /\ \A ptype \in present_particle_names :
                  /\ \A attr \in field_names :
                        keeps_stack(getattribute(Cur, ptype, attr))
                  /\ \A attr \in VectorNames, value \in WrittenArrays :
                        keeps_stack(setattr(Cur, ptype, attr, Some(value)))
                  /\ \A attr \in OtherNames :
                        keeps_stack(setattr(Cur, ptype, attr, None))
                  /\ keeps_stack(cartesian_coordinates(Cur, ptype))
                  /\ keeps_stack(spherical_coordinates(Cur, ptype))
            /\ keeps_stack(wrap_box(Cur)))

StackAppendOnlyWitness ==
    /\ transform_stack
          = << <<"T", <<1, 0, -1>> >>, <<"R", QuarterTurnMatrix>> >>
    /\ particle_dataset["gas"]["coordinates"]
          = Some(<< <<2, -3, 0>>, <<0, 1, 5>> >>)
    /\ loaded(Cur, "dark_matter", "coordinates")
    /\ particle_dataset["dark_matter"]["coordinates"]
          = wrap_box(Cur).particle_dataset["dark_matter"]["coordinates"]
    /\ cartesian_representation["dark_matter"] # None

(***************************************************************************)
(* C21  Transform calls never load data: a step that pushes a transform    *)
(* fetches nothing and loads no field, and in every state a translate,     *)
(* recentre, rotate or wrap_box call, whether it raises or not, leaves     *)
(* every unloaded field of every species unloaded and fetches no raw data. *)
(***************************************************************************)
loads_nothing(g) ==
    /\ g.raw_fetches = raw_fetches
    /\ \A ptype \in present_particle_names, attr \in field_names :
          ~loaded(Cur, ptype, attr) => ~loaded(g, ptype, attr)

TransformsNeverLoad ==
    /\ [][Len(transform_stack') > Len(transform_stack) =>
            /\ raw_fetches' = raw_fetches
            /\ \A ptype \in present_particle_names, attr \in field_names :
                  particle_dataset[ptype][attr] = None =>
                      particle_dataset'[ptype][attr] = None]_vars
    /\ [](constructed =>
            /\ \A offset \in Offsets, velocity \in BOOLEAN :
                  loads_nothing(translate(Cur, offset, velocity))
            /\ \A new_centre \in Centres, velocity \in BOOLEAN :
                  loads_nothing(recentre(Cur, new_centre, velocity))
            /\ \A arg \in RotateArgs :
                  loads_nothing(rotate(Cur, arg[1], arg[2]))
            /\ loads_nothing(wrap_box(Cur)))

TransformsNeverLoadWitness ==
    /\ Len(transform_stack) = MaxStack
    /\ transform_stack[1][1] = "T"
    /\ transform_stack[2] = <<"R", QuarterTurnMatrix>>
    /\ loaded(Cur, "gas", "coordinates")
    /\ raw_fetches["gas"]["coordinates"] = 1
    /\ \A attr \in {"coordinates", "velocities"} :
          /\ ~loaded(Cur, "dark_matter", attr)
          /\ raw_fetches["dark_matter"][attr] = 0
    /\ ~loaded(Cur, "gas", "velocities")

====
